---- MODULE Spec2Model ----
(***************************************************************************)
(* Personal finance ledger (src/main.py): the AccountManager record store   *)
(* over a CSV file, its validators, and the edit command of the menu loop. *)
(*                                                                         *)
(* A text (Python str) is a sequence of one-character strings.  A value    *)
(* handed to the store is a tagged Python object: a str or an int.  The    *)
(* file is the character sequence the csv writer produced, and every load  *)
(* parses it again with the csv reader's automaton.  The Cyrillic category *)
(* labels of the source are transliterated: "Доход" is Dohod, "Расход" is  *)
(* Rashod.                                                                 *)
(***************************************************************************)
EXTENDS Integers, Sequences, FiniteSets, TLC

VARIABLES
    exists,     \* whether the file self.filename exists
    content,    \* its characters
    last,       \* the last AccountManager call: arguments, result, exception
    date_pc,    \* check_date_input: "prompt" or "returned"
    date_input, \* check_date_input: the string read by input()
    num_call,   \* check_transaction_number_input: arguments and result
    pc,         \* menu loop: position in the handler of command 2 or 3
    sh          \* menu loop: its local variables

vars == <<exists, content, last, date_pc, date_input, num_call, pc, sh>>

----------------------------------------------------------------------------
(* Bounds of the model *)

\* longest store (records in the file) that add_transaction builds
MaxRecords == 2
\* longest store the queries are applied to
MaxStored == 3
\* longest string typed at the record-number prompt
MaxNumLen == 3
\* largest record count handed to check_transaction_number_input
MaxCount == 3
\* longest store the menu loop builds with command 2
MaxShellRecords == 2

----------------------------------------------------------------------------
(* Python values *)

PyStr(s) == [t |-> "str", s |-> s, n |-> 0]
PyInt(n) == [t |-> "int", s |-> <<>>, n |-> n]

DigitChars == <<"0", "1", "2", "3", "4", "5", "6", "7", "8", "9">>
IsDigit(c) == \E d \in 1..10 : DigitChars[d] = c
DigitVal(c) == (CHOOSE d \in 1..10 : DigitChars[d] = c) - 1

RECURSIVE NatToText(_)
NatToText(n) ==
    IF n < 10 THEN <<DigitChars[n + 1]>>
    ELSE NatToText(n \div 10) \o <<DigitChars[(n % 10) + 1]>>

\* str(n) for an int n
IntToText(n) == IF n < 0 THEN <<"-">> \o NatToText(-n) ELSE NatToText(n)

\* str(v): what csv.writer writes for a field that is not a str
str(v) == IF v.t = "int" THEN IntToText(v.n) ELSE v.s

AllDigits(s) == Len(s) >= 1 /\ \A i \in 1..Len(s) : IsDigit(s[i])

RECURSIVE DigitsVal(_)
DigitsVal(s) ==
    IF s = <<>> THEN 0
    ELSE 10 * DigitsVal(SubSeq(s, 1, Len(s) - 1)) + DigitVal(s[Len(s)])

IsSpace(c) == c \in {" ", "\t", "\n", "\r"}

RECURSIVE LStrip(_)
LStrip(s) == IF s # <<>> /\ IsSpace(Head(s)) THEN LStrip(Tail(s)) ELSE s

RECURSIVE RStrip(_)
RStrip(s) ==
    IF s # <<>> /\ IsSpace(s[Len(s)]) THEN RStrip(SubSeq(s, 1, Len(s) - 1))
    ELSE s

\* s.strip()
strip(s) == RStrip(LStrip(s))

RECURSIVE DropUnderscores(_)
DropUnderscores(s) ==
    IF s = <<>> THEN <<>>
    ELSE (IF Head(s) = "_" THEN <<>> ELSE <<Head(s)>>) \o DropUnderscores(Tail(s))

\* the digits of an int literal: they may be grouped by single underscores
IntBody(body) ==
    IF /\ body # <<>>
       /\ IsDigit(body[1]) /\ IsDigit(body[Len(body)])
       /\ \A i \in 1..Len(body) :
              \/ IsDigit(body[i])
              \/ body[i] = "_" /\ IsDigit(body[i - 1]) /\ IsDigit(body[i + 1])
    THEN [ok |-> TRUE, n |-> DigitsVal(DropUnderscores(body))]
    ELSE [ok |-> FALSE, n |-> 0]

Negated(r) == [r EXCEPT !.n = 0 - @]

IntStripped(t) ==
    IF t # <<>> /\ t[1] = "-" THEN Negated(IntBody(Tail(t)))
    ELSE IF t # <<>> /\ t[1] = "+" THEN IntBody(Tail(t))
    ELSE IntBody(t)

\* int(s) for a str s: white space around it is dropped, one sign may lead;
\* anything that is no int literal is a ValueError (ok = FALSE)
int(s) == IntStripped(strip(s))

----------------------------------------------------------------------------
(* The patterns and the validators *)

\* DATE_PATTERN.match(s): the pattern is matched at the start of s and is
\* not anchored at its end
DATE_PATTERN(s) ==
    /\ Len(s) >= 10
    /\ \A i \in 1..4 : IsDigit(s[i])
    /\ s[5] = "-"
    /\ \/ s[6] = "0" /\ IsDigit(s[7]) /\ s[7] # "0"
       \/ s[6] = "1" /\ s[7] \in {"0", "1", "2"}
    /\ s[8] = "-"
    /\ \/ s[9] = "0" /\ IsDigit(s[10]) /\ s[10] # "0"
       \/ s[9] \in {"1", "2"} /\ IsDigit(s[10])
       \/ s[9] = "3" /\ s[10] \in {"0", "1"}

\* AMOUNT_PATTERN.match(s): ^\d+$, where $ also matches before a final "\n"
AMOUNT_PATTERN(s) ==
    \/ AllDigits(s)
    \/ s # <<>> /\ s[Len(s)] = "\n" /\ AllDigits(SubSeq(s, 1, Len(s) - 1))

InRange(number, lo, hi) == number.ok /\ lo <= number.n /\ number.n <= hi

CommandNumber(command_number, num_commands) ==
    IF InRange(command_number, 1, num_commands) THEN command_number.n ELSE 0

\* request_command_number with the str read by input(): the number, or 0
\* for None
request_command_number(text, num_commands) ==
    CommandNumber(int(text), num_commands)

\* check_transaction_number_input with the range starting at 0
check_transaction_number_input_from_zero(transaction_number, len_transactions) ==
    [result |-> InRange(int(transaction_number), 0, len_transactions),
     raised |-> ""]

\* the ValueError of int() is caught and gives False
check_transaction_number_input(transaction_number, len_transactions) ==
    [result |-> InRange(int(transaction_number), 1, len_transactions),
     raised |-> ""]

----------------------------------------------------------------------------
(* csv.writer, dialect excel: delimiter ",", quotechar '"', doublequote,     *)
(* lineterminator "\r\n", QUOTE_MINIMAL                                      *)

RECURSIVE DoubleQuotes(_)
DoubleQuotes(s) ==
    IF s = <<>> THEN <<>>
    ELSE (IF Head(s) = "\"" THEN <<"\"", "\"">> ELSE <<Head(s)>>)
         \o DoubleQuotes(Tail(s))

\* one field as written: quoted when it holds the delimiter, the quote
\* character or a character of the line terminator
join_append(field) ==
    IF \E i \in 1..Len(field) : field[i] \in {",", "\"", "\r", "\n"}
    THEN <<"\"">> \o DoubleQuotes(field) \o <<"\"">>
    ELSE field

RECURSIVE JoinFields(_)
JoinFields(fields) ==
    IF fields = <<>> THEN <<>>
    ELSE IF Len(fields) = 1 THEN join_append(fields[1])
    ELSE join_append(fields[1]) \o <<",">> \o JoinFields(Tail(fields))

\* a row of one empty field is written as "" so that it is no empty line
WriteTexts(texts) ==
    IF Len(texts) = 1 /\ texts[1] = <<>> THEN <<"\"", "\"", "\r", "\n">>
    ELSE JoinFields(texts) \o <<"\r", "\n">>

\* writer.writerow(row): row is a sequence of Python values
writerow(row) == WriteTexts([i \in 1..Len(row) |-> str(row[i])])

RECURSIVE writerows(_)
writerows(rows) ==
    IF rows = <<>> THEN <<>> ELSE writerow(Head(rows)) \o writerows(Tail(rows))

----------------------------------------------------------------------------
(* csv.reader over a file opened with newline="": the parser automaton      *)

EOL == "EOL"

\* the reader between two records: no field yet, no row in progress;
\* rows are the records returned so far
ParserStart(rows) ==
    [state |-> "START_RECORD", field |-> <<>>, fields |-> <<>>,
     error |-> FALSE, rows |-> rows]

parse_save_field(st) ==
    [st EXCEPT !.fields = Append(@, st.field), !.field = <<>>]

parse_add_char(st, c) == [st EXCEPT !.field = Append(@, c)]

AfterField(c) == IF c = EOL THEN "START_RECORD" ELSE "EAT_CRNL"

parse_process_char(st, c) ==
    CASE st.state = "START_RECORD" /\ c = EOL -> st
      [] st.state = "START_RECORD" /\ c \in {"\n", "\r"} ->
            [st EXCEPT !.state = "EAT_CRNL"]
      [] \/ st.state = "START_FIELD"
         \/ st.state = "START_RECORD" /\ c \notin {EOL, "\n", "\r"} ->
            IF c \in {"\n", "\r", EOL}
            THEN [parse_save_field(st) EXCEPT !.state = AfterField(c)]
            ELSE IF c = "\"" THEN [st EXCEPT !.state = "IN_QUOTED_FIELD"]
            ELSE IF c = "," THEN [parse_save_field(st) EXCEPT !.state = "START_FIELD"]
            ELSE [parse_add_char(st, c) EXCEPT !.state = "IN_FIELD"]
      [] st.state = "IN_FIELD" ->
            IF c \in {"\n", "\r", EOL}
            THEN [parse_save_field(st) EXCEPT !.state = AfterField(c)]
            ELSE IF c = "," THEN [parse_save_field(st) EXCEPT !.state = "START_FIELD"]
            ELSE parse_add_char(st, c)
      [] st.state = "IN_QUOTED_FIELD" ->
            IF c = EOL THEN st
            ELSE IF c = "\"" THEN [st EXCEPT !.state = "QUOTE_IN_QUOTED_FIELD"]
            ELSE parse_add_char(st, c)
      [] st.state = "QUOTE_IN_QUOTED_FIELD" ->
            IF c = "\"" THEN [parse_add_char(st, c) EXCEPT !.state = "IN_QUOTED_FIELD"]
            ELSE IF c = "," THEN [parse_save_field(st) EXCEPT !.state = "START_FIELD"]
            ELSE IF c \in {"\n", "\r", EOL}
            THEN [parse_save_field(st) EXCEPT !.state = AfterField(c)]
            ELSE [parse_add_char(st, c) EXCEPT !.state = "IN_FIELD"]
      [] st.state = "EAT_CRNL" ->
            IF c \in {"\n", "\r"} THEN st
            ELSE IF c = EOL THEN [st EXCEPT !.state = "START_RECORD"]
            ELSE [st EXCEPT !.error = TRUE]

\* the file object yields lines ending at "\n", "\r\n", a lone "\r" or the
\* end of the file, line ends kept
LineEndsAt(text, i) ==
    \/ i = Len(text)
    \/ text[i] = "\n"
    \/ text[i] = "\r" /\ text[i + 1] # "\n"

\* the end of a line: the row is returned when the parser is back at
\* START_RECORD, and the next call starts a new one
AfterLine(st2) ==
    IF st2.state = "START_RECORD" /\ ~st2.error
    THEN ParserStart(Append(st2.rows, st2.fields))
    ELSE st2

AfterChar(text, i, st1) ==
    IF ~LineEndsAt(text, i) \/ st1.error THEN st1
    ELSE AfterLine(parse_process_char(st1, EOL))

\* Reader_iternext on the character text[i], and on the end of the line
\* when a line ends here
ReadChar(text, i, st) ==
    IF st.error THEN st ELSE AfterChar(text, i, parse_process_char(st, text[i]))

\* the characters text[lo..hi] in order, from parser state st
RECURSIVE ReadChars(_, _, _, _)
RECURSIVE ReadRest(_, _, _, _)
ReadChars(text, lo, hi, st) ==
    IF lo > hi THEN st
    ELSE IF lo = hi THEN ReadChar(text, lo, st)
    ELSE ReadRest(text, (lo + hi) \div 2, hi,
                  ReadChars(text, lo, (lo + hi) \div 2, st))

ReadRest(text, mid, hi, left) ==
    IF left.error THEN left ELSE ReadChars(text, mid + 1, hi, left)

\* at the end of the file a field in progress or an open quoted field is
\* still returned as a last row
EndOfFile(st) ==
    IF st.error THEN [error |-> TRUE, rows |-> st.rows]
    ELSE IF st.field # <<>> \/ st.state = "IN_QUOTED_FIELD"
    THEN [error |-> FALSE, rows |-> Append(st.rows, parse_save_field(st).fields)]
    ELSE [error |-> FALSE, rows |-> st.rows]

\* list(csv.reader(file))
reader(text) == EndOfFile(ReadChars(text, 1, Len(text), ParserStart(<<>>)))

----------------------------------------------------------------------------
(* class Transaction and class AccountManager *)

Transaction(date, category, amount, description) ==
    [date |-> date, category |-> category, amount |-> amount,
     description |-> description]

\* a row as csv.reader returns it: a list of str
StrRow(texts) == [i \in 1..Len(texts) |-> PyStr(texts[i])]

LoadedRows(r) ==
    [raised |-> IF r.error THEN "csv.Error" ELSE "",
     rows |-> [k \in 1..Len(r.rows) |-> StrRow(r.rows[k])]]

load_transactions(ex, text) ==
    IF ~ex THEN [raised |-> "FileNotFoundError", rows |-> <<>>]
    ELSE LoadedRows(reader(text))

\* open(filename, "w") and writer.writerows: the new characters of the file
save_transactions(transactions) == writerows(transactions)

\* add_transaction with the file opened "w" instead of "a"
add_transaction_truncating(text, transaction) ==
    writerow(<<transaction.date, transaction.category,
               transaction.amount, transaction.description>>)

\* open(filename, "a") and writer.writerow: the new characters of the file
add_transaction(text, transaction) ==
    text \o writerow(<<transaction.date, transaction.category,
                       transaction.amount, transaction.description>>)

\* the 1-based slot that list[i] = x assigns in a list of n items, 0 for
\* an IndexError: Python counts a negative i from the end
ListSlot(n, i) ==
    IF 0 <= i /\ i < n THEN i + 1
    ELSE IF 0 - n <= i /\ i < 0 THEN n + i + 1
    ELSE 0

\* transactions[slot] = new_transaction_data, then save_transactions
AssignAndSave(transactions, slot, new_transaction_data, ex, text) ==
    IF slot = 0
    THEN [raised |-> "IndexError", exists |-> ex, content |-> text]
    ELSE [raised |-> "", exists |-> TRUE,
          content |-> save_transactions(
              [transactions EXCEPT ![slot] = new_transaction_data])]

\* edit_transaction after its load, with the 0-based index to assign
EditLoaded(loaded, index, new_transaction_data, ex, text) ==
    IF loaded.raised # ""
    THEN [raised |-> loaded.raised, exists |-> ex, content |-> text]
    ELSE AssignAndSave(loaded.rows, ListSlot(Len(loaded.rows), index),
                       new_transaction_data, ex, text)

\* edit_transaction assigning transactions[transaction_index], without the
\* step from the 1-based position to the 0-based index
edit_transaction_no_offset(ex, text, transaction_index, new_transaction_data) ==
    EditLoaded(load_transactions(ex, text), transaction_index,
               new_transaction_data, ex, text)

edit_transaction(ex, text, transaction_index, new_transaction_data) ==
    EditLoaded(load_transactions(ex, text), transaction_index - 1,
               new_transaction_data, ex, text)

\* CriteriaMatch comparing the date against the category column
RECURSIVE CriteriaMatchWrongColumn(_, _)
CriteriaMatchWrongColumn(transaction, items) ==
    IF items = <<>> THEN TRUE
    ELSE LET key == Head(items)[1]
             value == Head(items)[2]
         IN  IF key = "date" /\ transaction[2] # value THEN FALSE
             ELSE IF key = "category" /\ transaction[2] # value THEN FALSE
             ELSE IF key = "amount" /\ transaction[3] # value THEN FALSE
             ELSE CriteriaMatchWrongColumn(transaction, Tail(items))

\* CriteriaMatch deciding on the first item of the criteria alone
CriteriaMatchFirstKey(transaction, items) ==
    IF items = <<>> THEN TRUE
    ELSE LET key == Head(items)[1]
             value == Head(items)[2]
         IN  IF key = "date" /\ transaction[1] # value THEN FALSE
             ELSE IF key = "category" /\ transaction[2] # value THEN FALSE
             ELSE IF key = "amount" /\ transaction[3] # value THEN FALSE
             ELSE TRUE

\* criteria is a dict, here the sequence of its (key, value) items
RECURSIVE CriteriaMatch(_, _)
CriteriaMatch(transaction, items) ==
    IF items = <<>> THEN TRUE
    ELSE LET key == Head(items)[1]
             value == Head(items)[2]
         IN  IF key = "date" /\ transaction[1] # value THEN FALSE
             ELSE IF key = "category" /\ transaction[2] # value THEN FALSE
             ELSE IF key = "amount" /\ transaction[3] # value THEN FALSE
             ELSE CriteriaMatch(transaction, Tail(items))

RECURSIVE SearchFrom(_, _, _, _)
SearchFrom(transactions, k, criteria, result) ==
    IF k > Len(transactions) THEN result
    ELSE IF CriteriaMatch(transactions[k], criteria)
    THEN SearchFrom(transactions, k + 1, criteria, Append(result, transactions[k]))
    ELSE SearchFrom(transactions, k + 1, criteria, result)

SearchLoaded(loaded, criteria) ==
    IF loaded.raised # "" THEN [raised |-> loaded.raised, rows |-> <<>>]
    ELSE [raised |-> "", rows |-> SearchFrom(loaded.rows, 1, criteria, <<>>)]

search_transactions(ex, text, criteria) ==
    SearchLoaded(load_transactions(ex, text), criteria)

\* float(s) of a str of decimal digits (every amount of the stores built
\* here: an int >= 0 as written by the writer, or a digit-only str)
float(v) == DigitsVal(v.s)

Dohod == <<"D", "o", "h", "o", "d">>
Rashod == <<"R", "a", "s", "h", "o", "d">>

\* BalanceFrom with a plain else: every row that is not income is subtracted
RECURSIVE BalanceFromElse(_, _, _)
BalanceFromElse(transactions, k, balance) ==
    IF k > Len(transactions) THEN balance
    ELSE LET amount == float(transactions[k][3])
         IN  IF transactions[k][2] = PyStr(Dohod)
             THEN BalanceFromElse(transactions, k + 1, balance + amount)
             ELSE BalanceFromElse(transactions, k + 1, balance - amount)

RECURSIVE BalanceFrom(_, _, _)
BalanceFrom(transactions, k, balance) ==
    IF k > Len(transactions) THEN balance
    ELSE LET amount == float(transactions[k][3])
         IN  IF transactions[k][2] = PyStr(Dohod)
             THEN BalanceFrom(transactions, k + 1, balance + amount)
             ELSE IF transactions[k][2] = PyStr(Rashod)
             THEN BalanceFrom(transactions, k + 1, balance - amount)
             ELSE BalanceFrom(transactions, k + 1, balance)

BalanceLoaded(loaded) ==
    IF loaded.raised # "" THEN [raised |-> loaded.raised, total |-> 0]
    ELSE [raised |-> "", total |-> BalanceFrom(loaded.rows, 1, 0)]

show_balance(ex, text) == BalanceLoaded(load_transactions(ex, text))

\* ExpensesFrom adding every amount to the total, listed or not
RECURSIVE ExpensesFromAll(_, _, _, _)
ExpensesFromAll(transactions, k, expenses, transactions_expenses) ==
    IF k > Len(transactions)
    THEN [rows |-> transactions_expenses, total |-> expenses]
    ELSE IF transactions[k][2] = PyStr(Rashod)
    THEN ExpensesFromAll(transactions, k + 1,
                         expenses + float(transactions[k][3]),
                         Append(transactions_expenses, transactions[k]))
    ELSE ExpensesFromAll(transactions, k + 1,
                         expenses + float(transactions[k][3]),
                         transactions_expenses)

RECURSIVE ExpensesFrom(_, _, _, _)
ExpensesFrom(transactions, k, expenses, transactions_expenses) ==
    IF k > Len(transactions)
    THEN [rows |-> transactions_expenses, total |-> expenses]
    ELSE IF transactions[k][2] = PyStr(Rashod)
    THEN ExpensesFrom(transactions, k + 1,
                      expenses + float(transactions[k][3]),
                      Append(transactions_expenses, transactions[k]))
    ELSE ExpensesFrom(transactions, k + 1, expenses, transactions_expenses)

\* the pair a show_ method returns, or the exception of its load
ListAndTotal(loaded, r) ==
    IF loaded.raised # ""
    THEN [raised |-> loaded.raised, rows |-> <<>>, total |-> 0]
    ELSE [raised |-> "", rows |-> r.rows, total |-> r.total]

ExpensesLoaded(loaded) ==
    ListAndTotal(loaded, ExpensesFrom(loaded.rows, 1, 0, <<>>))

show_expenses(ex, text) == ExpensesLoaded(load_transactions(ex, text))

RECURSIVE ProfitFrom(_, _, _, _)
ProfitFrom(transactions, k, profit, transactions_profit) ==
    IF k > Len(transactions)
    THEN [rows |-> transactions_profit, total |-> profit]
    ELSE IF transactions[k][2] = PyStr(Dohod)
    THEN ProfitFrom(transactions, k + 1,
                    profit + float(transactions[k][3]),
                    Append(transactions_profit, transactions[k]))
    ELSE ProfitFrom(transactions, k + 1, profit, transactions_profit)

ProfitLoaded(loaded) ==
    ListAndTotal(loaded, ProfitFrom(loaded.rows, 1, 0, <<>>))

show_profit(ex, text) == ProfitLoaded(load_transactions(ex, text))

----------------------------------------------------------------------------
(* Inputs of the store specification *)

D0501 == <<"2", "0", "2", "4", "-", "0", "5", "-", "0", "1">>
D0502 == <<"2", "0", "2", "4", "-", "0", "5", "-", "0", "2">>
D0503 == <<"2", "0", "2", "4", "-", "0", "5", "-", "0", "3">>
\* a label that is neither category: "Доход" in lower case
LowerDohod == <<"d", "o", "h", "o", "d">>

\* Transaction objects handed to add_transaction; the descriptions hold
\* what the csv writer quotes: a comma, a quote, a line break, nothing
Transactions ==
    { Transaction(PyStr(D0501), PyStr(Dohod), PyInt(1000), PyStr(<<"z", "p">>)),
      Transaction(PyStr(D0502), PyStr(Rashod), PyInt(500),
                  PyStr(<<"a", ",", "\"", "q">>)),
      Transaction(PyStr(D0501), PyStr(Rashod), PyInt(0), PyStr(<<>>)),
      Transaction(PyStr(D0502), PyStr(LowerDohod), PyInt(7),
                  PyStr(<<"x", "\r", "\n", "y">>)) }

\* new_transaction_data lists handed to edit_transaction: the amount an
\* int (as the menu loop and the tests pass it) or a digit-only str
NewData ==
    { <<PyStr(D0503), PyStr(Rashod), PyInt(700), PyStr(<<"n">>)>>,
      <<PyStr(D0501), PyStr(Dohod), PyStr(<<"0", "7", "0", "0">>),
        PyStr(<<" ", "\"", "b", "\"", "\n">>)>> }

\* transaction_index values: inside and outside 1..MaxRecords
Positions == (0 - MaxRecords - 1)..(MaxRecords + 1)

OptItem(key, values) == {<<>>} \cup {<< <<key, PyStr(v)>> >> : v \in values}

\* criteria dicts: each key absent or present with one of a few values;
\* "description" is a key search_transactions does not know
Criteria ==
    { a \o b \o c \o d :
        a \in OptItem("date", {D0501, D0503}),
        b \in OptItem("category", {Dohod, Rashod, <<>>}),
        c \in OptItem("amount", {<<"5", "0", "0">>, <<"7", "0", "0">>}),
        d \in OptItem("description", {<<"z", "p">>}) }

----------------------------------------------------------------------------
(* The store specification: calls of the AccountManager methods *)

NoTransaction == Transaction(PyStr(<<>>), PyStr(<<>>), PyInt(0), PyStr(<<>>))

\* a call record: the method, its arguments, the records in the file
\* before it, and what it returned or raised
Call(op) ==
    [op |-> op, transaction |-> NoTransaction, index |-> 0, data |-> <<>>,
     criteria |-> <<>>, existed |-> FALSE, before |-> <<>>,
     rows |-> <<>>, total |-> 0, raised |-> ""]

NoNumberCall ==
    [called |-> FALSE, text |-> <<>>, count |-> 0, result |-> FALSE,
     raised |-> ""]

\* the local variables of the menu loop
NoLocals ==
    [done |-> "", error |-> "", transactions |-> <<>>, len_transactions |-> 0,
     transaction_number_input |-> <<>>, sub_command |-> 0,
     new_transaction_data |-> <<>>]

\* the records a load returns now
Store == load_transactions(exists, content).rows

Idle ==
    /\ date_pc = "idle" /\ date_input = <<>>
    /\ num_call = NoNumberCall
    /\ pc = "idle" /\ sh = NoLocals

Init ==
    /\ exists \in BOOLEAN
    /\ content = <<>>
    /\ last = Call("none")
    /\ Idle

OthersUnchanged == UNCHANGED <<date_pc, date_input, num_call, pc, sh>>

AddTransaction ==
    /\ Len(Store) < MaxRecords
    /\ \E transaction \in Transactions :
        /\ exists' = TRUE
        /\ content' = add_transaction(content, transaction)
        /\ last' = [Call("add") EXCEPT !.transaction = transaction,
                        !.existed = exists, !.before = Store]
        /\ OthersUnchanged

EditTransaction ==
    \E transaction_index \in Positions, new_transaction_data \in NewData :
        \E r \in {edit_transaction(exists, content, transaction_index,
                                   new_transaction_data)} :
            /\ exists' = r.exists
            /\ content' = r.content
            /\ last' = [Call("edit") EXCEPT !.index = transaction_index,
                            !.data = new_transaction_data, !.existed = exists,
                            !.before = Store, !.raised = r.raised]
            /\ OthersUnchanged

LoadTransactions ==
    \E r \in {load_transactions(exists, content)} :
        /\ last' = [Call("load") EXCEPT !.existed = exists, !.rows = r.rows,
                        !.raised = r.raised]
        /\ UNCHANGED <<exists, content>>
        /\ OthersUnchanged

Next ==
    \/ AddTransaction
    \/ EditTransaction
    \/ LoadTransactions

Spec == Init /\ [][Next]_vars

----------------------------------------------------------------------------
(* The query specification: one query on a store the writer produced *)

\* the rows the store specification can put in a file
StoredRows ==
    { <<t.date, t.category, t.amount, t.description>> : t \in Transactions }
    \cup NewData

RECURSIVE StoresUpTo(_)
StoresUpTo(n) ==
    IF n = 0 THEN {<<>>}
    ELSE LET shorter == StoresUpTo(n - 1)
         IN  shorter \cup {Append(rows, row) : rows \in shorter, row \in StoredRows}

InitQuery ==
    /\ \/ exists = FALSE /\ content = <<>>
       \/ exists = TRUE
          /\ content \in {save_transactions(rows) : rows \in StoresUpTo(MaxStored)}
    /\ last = Call("none")
    /\ Idle

SearchTransactions ==
    /\ last.op = "none"
    /\ \E criteria \in Criteria :
        \E r \in {search_transactions(exists, content, criteria)} :
            /\ last' = [Call("search") EXCEPT !.criteria = criteria,
                            !.existed = exists, !.rows = r.rows,
                            !.raised = r.raised]
            /\ UNCHANGED <<exists, content>>
            /\ OthersUnchanged

ShowBalance ==
    /\ last.op = "none"
    /\ \E r \in {show_balance(exists, content)} :
        /\ last' = [Call("balance") EXCEPT !.existed = exists,
                        !.total = r.total, !.raised = r.raised]
        /\ UNCHANGED <<exists, content>>
        /\ OthersUnchanged

ShowExpenses ==
    /\ last.op = "none"
    /\ \E r \in {show_expenses(exists, content)} :
        /\ last' = [Call("expenses") EXCEPT !.existed = exists,
                        !.rows = r.rows, !.total = r.total,
                        !.raised = r.raised]
        /\ UNCHANGED <<exists, content>>
        /\ OthersUnchanged

ShowProfit ==
    /\ last.op = "none"
    /\ \E r \in {show_profit(exists, content)} :
        /\ last' = [Call("profit") EXCEPT !.existed = exists,
                        !.rows = r.rows, !.total = r.total,
                        !.raised = r.raised]
        /\ UNCHANGED <<exists, content>>
        /\ OthersUnchanged

NextQuery ==
    \/ SearchTransactions
    \/ ShowBalance
    \/ ShowExpenses
    \/ ShowProfit

SpecQuery == InitQuery /\ [][NextQuery]_vars

----------------------------------------------------------------------------
(* Properties of the store: add_transaction and edit_transaction (Spec) *)

\* a list of Python values as the reader returns it after a write: every
\* field the str of the value
Rendered(data) == [i \in 1..Len(data) |-> PyStr(str(data[i]))]

\* C1: after add_transaction(t) on a store of N records, a load returns
\* N+1 records: the first N are the old ones in order, and record N+1 has
\* t's date, category and description and an amount that parses to t.amount.
C1_AppendThenLoad ==
    last.op = "add" =>
        LET N == Len(last.before)
            t == last.transaction
            after == load_transactions(exists, content)
        IN  /\ after.raised = ""
            /\ Len(after.rows) = N + 1
            /\ SubSeq(after.rows, 1, N) = last.before
            /\ Len(after.rows[N + 1]) = 4
            /\ after.rows[N + 1][1] = t.date
            /\ after.rows[N + 1][2] = t.category
            /\ after.rows[N + 1][4] = t.description
            /\ AllDigits(after.rows[N + 1][3].s)
            /\ DigitsVal(after.rows[N + 1][3].s) = t.amount.n

\* C1 witness: a transaction with a line break in its description was
\* appended to a store that already held a record
C1_Witness ==
    /\ last.op = "add"
    /\ Len(last.before) >= 1
    /\ \E i \in 1..Len(last.transaction.description.s) :
           last.transaction.description.s[i] = "\n"

\* C2 as stated: after edit_transaction(p, data) with 1 <= p <= N a load
\* returns N records, the one at p equal to data, the others as before.
C2_EditStoresArgument ==
    (last.op = "edit" /\ last.existed
        /\ 1 <= last.index /\ last.index <= Len(last.before)) =>
        /\ last.raised = ""
        /\ load_transactions(exists, content).raised = ""
        /\ Store = [last.before EXCEPT ![last.index] = last.data]

\* C2 amended: after edit_transaction(p, data) with 1 <= p <= N a load
\* returns N records, the one at p holding the str of each field of data
\* (an int amount 700 is read back as the str "700"), the others as before.
C2_EditReplacesOne ==
    (last.op = "edit" /\ last.existed
        /\ 1 <= last.index /\ last.index <= Len(last.before)) =>
        /\ last.raised = ""
        /\ load_transactions(exists, content).raised = ""
        /\ Store = [last.before EXCEPT ![last.index] = Rendered(last.data)]

\* C2 witness: the first of two records was replaced by data with an int
\* amount
C2_Witness ==
    /\ last.op = "edit" /\ last.raised = ""
    /\ Len(last.before) = 2 /\ last.index = 1
    /\ last.data[3].t = "int"
    /\ Store[2] = last.before[2]

\* C3: edit_transaction with a position outside 1..N raises IndexError and
\* leaves the N records of the file as they were.
C3_EditOutOfRangeFails ==
    (last.op = "edit" /\ last.existed
        /\ (last.index < 1 \/ last.index > Len(last.before))) =>
        /\ last.raised = "IndexError"
        /\ Store = last.before

----------------------------------------------------------------------------
(* Properties of the queries (SpecQuery) *)

AmountOf(row) == DigitsVal(row[3].s)

\* the sum of the amounts of the rows whose category is the given label
RECURSIVE SumOf(_, _)
SumOf(rows, category) ==
    IF rows = <<>> THEN 0
    ELSE (IF Head(rows)[2].s = category THEN AmountOf(Head(rows)) ELSE 0)
         + SumOf(Tail(rows), category)

HasCategory(rows, category) == \E k \in 1..Len(rows) : rows[k][2].s = category

\* C4: show_balance returns the sum of the Dohod amounts minus the sum of
\* the Rashod amounts; rows with another label count for nothing and raise
\* nothing; the empty store gives 0.
C4_Balance ==
    (last.op = "balance" /\ last.existed) =>
        /\ last.raised = ""
        /\ last.total = SumOf(Store, Dohod) - SumOf(Store, Rashod)
        /\ (Store = <<>> => last.total = 0)

\* C4 witness: a balance over income, expense and a row of another label
C4_Witness ==
    /\ last.op = "balance"
    /\ HasCategory(Store, Dohod) /\ HasCategory(Store, Rashod)
    /\ HasCategory(Store, LowerDohod)
    /\ last.total = 500

\* the column search_transactions compares for a key it knows, 0 otherwise
ColumnOf(key) ==
    CASE key = "date" -> 1 [] key = "category" -> 2 [] key = "amount" -> 3
      [] OTHER -> 0

\* C5: a search by one of date, category, amount returns exactly the rows
\* whose field is textually equal to the value, in store order, duplicates
\* kept; an empty list when there is none.
C5_SearchByField ==
    (last.op = "search" /\ last.existed /\ Len(last.criteria) = 1
        /\ ColumnOf(last.criteria[1][1]) # 0) =>
        LET col == ColumnOf(last.criteria[1][1])
            value == last.criteria[1][2]
            Equal(row) == row[col].s = value.s
        IN  /\ last.raised = ""
            /\ last.rows = SelectSeq(Store, Equal)

\* C5 witness: a search by category on income, expense, income returned
\* the two income rows
C5_Witness ==
    /\ last.op = "search"
    /\ last.criteria = << <<"category", PyStr(Dohod)>> >>
    /\ Len(Store) = 3
    /\ Store[1][2].s = Dohod /\ Store[2][2].s = Rashod /\ Store[3][2].s = Dohod
    /\ last.rows = <<Store[1], Store[3]>>

\* C6: show_expenses returns the Rashod rows in store order with the sum of
\* their amounts, show_profit the Dohod rows with theirs; no other row is
\* in the list or the total.
C6_CategoryLists ==
    /\ (last.op = "expenses" /\ last.existed) =>
        LET IsExpense(row) == row[2].s = Rashod
        IN  /\ last.raised = ""
            /\ last.rows = SelectSeq(Store, IsExpense)
            /\ last.total = SumOf(Store, Rashod)
    /\ (last.op = "profit" /\ last.existed) =>
        LET IsIncome(row) == row[2].s = Dohod
        IN  /\ last.raised = ""
            /\ last.rows = SelectSeq(Store, IsIncome)
            /\ last.total = SumOf(Store, Dohod)

\* C6 witness: the expenses of a store that also holds income and a row of
\* another label
C6_Witness ==
    /\ last.op = "expenses"
    /\ HasCategory(Store, Dohod) /\ HasCategory(Store, LowerDohod)
    /\ Len(last.rows) = 1 /\ last.total > 0

\* C9: a search returns exactly the rows that satisfy the condition of
\* every key among date, category, amount in the criteria; any other key
\* sets no condition, so criteria of unknown keys only return every row.
C9_SearchAllKeys ==
    (last.op = "search" /\ last.existed) =>
        LET Known == {k \in 1..Len(last.criteria) :
                         ColumnOf(last.criteria[k][1]) # 0}
            All(row) == \A k \in Known :
                row[ColumnOf(last.criteria[k][1])].s = last.criteria[k][2].s
        IN  /\ last.raised = ""
            /\ last.rows = SelectSeq(Store, All)
            /\ (Known = {} => last.rows = Store)

\* C9 witness: criteria with two known keys kept a row that matches both
\* and dropped a row that matches only one of them
C9_Witness ==
    /\ last.op = "search"
    /\ Len(last.criteria) = 2
    /\ last.criteria[1][1] = "date" /\ last.criteria[2][1] = "category"
    /\ last.rows # <<>>
    /\ \E k \in 1..Len(Store) :
           /\ Store[k][1] = last.criteria[1][2]
           /\ Store[k][2] # last.criteria[2][2]

----------------------------------------------------------------------------
(* check_date_input (SpecDate): the prompt loop over typed strings *)

\* typed strings: a date built from parts, right or wrong, with or without
\* something before and after it
DateInputs ==
    { before \o year \o <<sep>> \o month \o <<sep>> \o day \o after :
        before \in {<<>>, <<" ">>},
        year \in {<<"2", "0", "2", "4">>, <<"2", "4">>, <<"2", "0", "x", "4">>},
        sep \in {"-", "/"},
        month \in {<<"0", "0">>, <<"0", "1">>, <<"0", "5">>, <<"1", "0">>,
                   <<"1", "2">>, <<"1", "3">>, <<"5">>},
        day \in {<<"0", "0">>, <<"0", "1">>, <<"0", "4">>, <<"1", "5">>,
                 <<"2", "9">>, <<"3", "1">>, <<"3", "2">>},
        after \in {<<>>, <<"1">>, <<"x">>, <<" ">>} }

InitDate ==
    /\ exists = FALSE /\ content = <<>> /\ last = Call("none")
    /\ date_pc = "prompt" /\ date_input = <<>>
    /\ num_call = NoNumberCall
    /\ pc = "idle" /\ sh = NoLocals

\* input() and the test of the pattern: return on a match
CheckDateInput ==
    /\ date_pc = "prompt"
    /\ \E typed \in DateInputs :
        /\ date_input' = typed
        /\ date_pc' = IF DATE_PATTERN(typed) THEN "returned" ELSE "rejected"
    /\ UNCHANGED <<exists, content, last, num_call, pc, sh>>

\* no match: the message is printed and the loop prompts again
CheckDateInputRetry ==
    /\ date_pc = "rejected"
    /\ date_pc' = "prompt"
    /\ date_input' = <<>>
    /\ UNCHANGED <<exists, content, last, num_call, pc, sh>>

\* the caller asks for another date
CheckDateInputAgain ==
    /\ date_pc = "returned"
    /\ date_pc' = "prompt"
    /\ date_input' = <<>>
    /\ UNCHANGED <<exists, content, last, num_call, pc, sh>>

NextDate == CheckDateInput \/ CheckDateInputRetry \/ CheckDateInputAgain

SpecDate == InitDate /\ [][NextDate]_vars

\* the whole string is YYYY-MM-DD with a month 01..12 and a day 01..31
ExactDate(s) == Len(s) = 10 /\ DATE_PATTERN(s)

\* C7: check_date_input returns a typed string exactly when the whole
\* string has the form YYYY-MM-DD, and rejects every other string.
C7_DateWholeString ==
    /\ date_pc = "returned" => ExactDate(date_input)
    /\ date_pc = "rejected" => ~ExactDate(date_input)

----------------------------------------------------------------------------
(* check_transaction_number_input (SpecNumber) *)

NumberChars == {"0", "1", "2", "3", "4", "-", "+", " ", "_", "a"}

RECURSIVE TextsUpTo(_)
TextsUpTo(n) ==
    IF n = 0 THEN {<<>>}
    ELSE LET shorter == TextsUpTo(n - 1)
         IN  shorter \cup {Append(t, c) : t \in shorter, c \in NumberChars}

InitNumber ==
    /\ exists = FALSE /\ content = <<>> /\ last = Call("none")
    /\ date_pc = "idle" /\ date_input = <<>>
    /\ num_call = NoNumberCall
    /\ pc = "idle" /\ sh = NoLocals

CheckTransactionNumberInput ==
    /\ ~num_call.called
    /\ \E transaction_number \in TextsUpTo(MaxNumLen),
          len_transactions \in 0..MaxCount :
        \E r \in {check_transaction_number_input(transaction_number,
                                                 len_transactions)} :
            num_call' = [called |-> TRUE, text |-> transaction_number,
                         count |-> len_transactions, result |-> r.result,
                         raised |-> r.raised]
    /\ UNCHANGED <<exists, content, last, date_pc, date_input, pc, sh>>

\* the caller goes on and may call again
NumberInputReturned ==
    /\ num_call.called
    /\ num_call' = NoNumberCall
    /\ UNCHANGED <<exists, content, last, date_pc, date_input, pc, sh>>

NextNumber == CheckTransactionNumberInput \/ NumberInputReturned

SpecNumber == InitNumber /\ [][NextNumber]_vars

\* C8: check_transaction_number_input(text, count) is true exactly when
\* text parses as an integer n with 1 <= n <= count; text that does not
\* parse gives false and raises nothing; count = 0 gives false for all text.
C8_NumberInRange ==
    num_call.called =>
        LET number == int(num_call.text)
        IN  /\ num_call.raised = ""
            /\ num_call.result =
                   (number.ok /\ 1 <= number.n /\ number.n <= num_call.count)
            /\ (AllDigits(num_call.text) =>
                   num_call.result = (1 <= DigitsVal(num_call.text)
                                      /\ DigitsVal(num_call.text) <= num_call.count))
            /\ ((\E i \in 1..Len(num_call.text) : num_call.text[i] = "a") =>
                   ~num_call.result)
            /\ (num_call.count = 0 => ~num_call.result)

\* C8 witness: the number of the last record was accepted
C8_Witness ==
    /\ num_call.called /\ num_call.result
    /\ num_call.count >= 2
    /\ AllDigits(num_call.text) /\ DigitsVal(num_call.text) = num_call.count

----------------------------------------------------------------------------
(* The menu loop (SpecShell): command 2 adds a record, command 3 edits one *)

\* strings typed at the prompts, right and wrong
CategoryInputs == {<<"1">>, <<"2">>, <<"3">>}
NumberInputs == {<<"0">>, <<"1">>, <<"2">>, <<"3">>, <<"x">>}
AddAmountInputs == {<<"5", "0", "0">>, <<"-", "5">>}
AddDateInputs == {D0501, <<"2", "0", "2", "4", "-", "1", "3", "-", "0", "1">>}
AddDescriptionInputs == {<<" ", "z", "p">>}
EditAmountInputs == {<<"7", "0", "0">>, <<"7", ".", "5">>}
EditDateInputs == {D0503, <<"2", "4", "-", "0", "5", "-", "0", "4">>}
EditDescriptionInputs == {<<" ", "n">>}

InitShell ==
    /\ exists \in BOOLEAN /\ content = <<>>
    /\ last = Call("none")
    /\ date_pc = "idle" /\ date_input = <<>>
    /\ num_call = NoNumberCall
    /\ pc = "menu" /\ sh = NoLocals

ShellFrame == UNCHANGED <<last, date_pc, date_input, num_call>>

\* the label of menu choice 1 and of menu choice 2
CategoryOf(sub_command) == IF sub_command = 1 THEN Rashod ELSE Dohod

\* command == 2: the category, the amount, the description and the date are
\* asked until each is valid, then the record is appended
CommandAdd ==
    /\ pc = "menu"
    /\ Len(Store) < MaxShellRecords
    /\ \E typed \in CategoryInputs, amount_input \in AddAmountInputs,
          description_input \in AddDescriptionInputs,
          typed_date \in AddDateInputs :
        \E sub_command \in {request_command_number(typed, 2)} :
            /\ sub_command \in {1, 2}
            /\ AMOUNT_PATTERN(amount_input)
            /\ DATE_PATTERN(typed_date)
            /\ exists' = TRUE
            /\ content' = add_transaction(content,
                   Transaction(PyStr(typed_date),
                               PyStr(CategoryOf(sub_command)),
                               PyInt(int(amount_input).n),
                               PyStr(strip(description_input))))
            /\ sh' = [NoLocals EXCEPT !.done = "added"]
            /\ pc' = "menu"
    /\ ShellFrame

\* command == 3, lines 313-317: the records are loaded and listed
CommandEditLoad ==
    /\ pc = "menu"
    /\ \E loaded \in {load_transactions(exists, content)} :
        IF loaded.raised # ""
        THEN /\ pc' = "crashed"
             /\ sh' = [NoLocals EXCEPT !.error = loaded.raised]
        ELSE /\ pc' = "ask_number"
             /\ sh' = [NoLocals EXCEPT !.transactions = loaded.rows,
                           !.len_transactions = Len(loaded.rows)]
    /\ UNCHANGED <<exists, content>>
    /\ ShellFrame

\* lines 318-330: the record number is asked until it is valid
CommandEditNumber ==
    /\ pc = "ask_number"
    /\ \E typed \in NumberInputs :
        /\ sh' = [sh EXCEPT !.transaction_number_input = typed]
        /\ pc' = IF check_transaction_number_input(typed,
                        sh.len_transactions).result
                 THEN "ask_category" ELSE "ask_number"
    /\ UNCHANGED <<exists, content>>
    /\ ShellFrame

\* lines 331-340: the new category is asked until it is 1 or 2
CommandEditCategory ==
    /\ pc = "ask_category"
    /\ \E typed \in CategoryInputs :
        \E sub_command \in {request_command_number(typed, 2)} :
            /\ sh' = [sh EXCEPT !.sub_command = sub_command]
            /\ pc' = IF sub_command \in {1, 2} THEN "ask_data"
                     ELSE "ask_category"
    /\ UNCHANGED <<exists, content>>
    /\ ShellFrame

\* lines 341-350: the date, the amount and the description are asked, and
\* edit_transaction is called with sub_command as its transaction_index
CommandEditData ==
    /\ pc = "ask_data"
    /\ \E typed_date \in EditDateInputs, amount_input \in EditAmountInputs,
          description_input \in EditDescriptionInputs :
        /\ DATE_PATTERN(typed_date)
        /\ AMOUNT_PATTERN(amount_input)
        /\ \E new_transaction_data \in
                 { <<PyStr(typed_date), PyStr(CategoryOf(sh.sub_command)),
                     PyInt(int(amount_input).n), PyStr(description_input)>> } :
            \E r \in {edit_transaction(exists, content, sh.sub_command,
                                       new_transaction_data)} :
                /\ exists' = r.exists
                /\ content' = r.content
                /\ IF r.raised # ""
                   THEN /\ pc' = "crashed"
                        /\ sh' = [sh EXCEPT !.error = r.raised,
                                      !.new_transaction_data = new_transaction_data]
                   ELSE /\ pc' = "menu"
                        /\ sh' = [sh EXCEPT !.done = "edited",
                                      !.new_transaction_data = new_transaction_data]
    /\ ShellFrame

\* command == 5
CommandExit ==
    /\ pc = "menu"
    /\ pc' = "exited"
    /\ sh' = NoLocals
    /\ UNCHANGED <<exists, content>>
    /\ ShellFrame

NextShell ==
    \/ CommandAdd
    \/ CommandEditLoad
    \/ CommandEditNumber
    \/ CommandEditCategory
    \/ CommandEditData
    \/ CommandExit

SpecShell == InitShell /\ [][NextShell]_vars

\* C10: in command 3, for every record number k the user enters and the
\* check accepts, and either new category, the record at k is replaced (by
\* the entered data as the file stores it) and the other records are left as
\* they were; the command never ends in an IndexError.
C10_EditCommandEditsChosenRecord ==
    /\ sh.done = "edited" =>
           Store = [sh.transactions
                       EXCEPT ![int(sh.transaction_number_input).n] =
                           Rendered(sh.new_transaction_data)]
    /\ ~(pc = "crashed" /\ sh.error = "IndexError")

====
